---- MODULE Spec2Model ----
(***************************************************************************)
(* GrpcClient (src/src/GrpcClient.ts): one duplex action stream carrying   *)
(* locally initiated requests (seq), their replies (ack), requests proxied *)
(* by the server to the WeChat transports, and system events.              *)
(*                                                                         *)
(* Header fields follow the protobuf accessors: getSeq()/getAck() return 0 *)
(* for a field that is not set, and `if (ack)` treats 0 as "no ack".       *)
(***************************************************************************)
EXTENDS Naturals, Sequences, FiniteSets, TLC

\* ------------------------------------------------------------------ bounds
MaxCalls == 2

MaxInSeq == 1

MaxForward == 1

\* Byte values are 0..MaxByte.
MaxByte == 2

\* Frames the file server may put on the wire of one download.
MaxFrames == 2

\* Bytes per inbound chunk of the socket session.
MaxChunk == 3

\* Bytes of an image or of its thumbnail.
MaxData == 2

\* Proxied requests in flight at a time, where their interleaving is studied.
MaxPipeline == 2

\* ------------------------------------------------------------------- state
VARIABLES
  _status,            \* GrpcClient._status
  _seqId,             \* GrpcClient._seqId
  _pendingCallbacks,  \* keys of the Map<number, PromiseCallback>
  timers,             \* seqs whose setTimeout handle is armed
  promise,            \* settled state of the promise returned by the k-th correlated send
  settleCalls,        \* how often the (resolve, reject) pair of promise k was invoked
  assigned,           \* newSeqId of each correlated send, in call order
  wrote,              \* frames the latest step handed to _grpcStream.write, in order
  cancelled,          \* number of _grpcStream.cancel() calls
  ended,              \* number of _grpcStream.end() calls
  forwards,           \* proxied requests in _handle*Request, in arrival order
  last,               \* the latest step: the operation and the external callback it
                      \* invoked, if any
  returned,           \* what the promise the latest step handed back to a sendOnly
                      \* caller settled with, if the step was such a call
  \* downloadFile (src/src/utils/FileUtils.ts)
  pc,                 \* where downloadFile stands
  session,            \* state of the SocketClient session behind socketClient.send
  unpackaeskey,       \* fileDownloadRequest.getUnpackaeskey()
  wire,               \* bytes the file server has still to deliver
  fileUnpacker,       \* bytes the decoder has buffered
  response,           \* the local `response`: null or the first decoded frame
  fed,                \* chunks handed to onReceive so far, in order
  decrypted,          \* whether fileUnpacker.getDecryptedFileData was called
  ret,                \* what downloadFile returned or threw
  \* prepareImageUpload (src/src/utils/FileUtils.ts)
  imageData,          \* argument imageData
  useThumb,           \* argument useThumb
  thumbImageData,     \* what createImageThumb(imageData, 120) gave
  prepared            \* what prepareImageUpload returned: <<>> or <<{params, aesKey, dataBag}>>

clientVars ==
  <<_status, _seqId, _pendingCallbacks, timers, promise, settleCalls, assigned,
    wrote, cancelled, ended, forwards, last, returned>>

downloadVars == <<pc, session, unpackaeskey, wire, fileUnpacker, response, fed, decrypted, ret>>

uploadVars == <<imageData, useThumb, thumbImageData, prepared>>

fileVars == <<downloadVars, uploadVars>>

vars == <<clientVars, downloadVars, uploadVars>>

\* -------------------------------------------------------------- data types
Status == {"OK", "SERVER_ERROR", "SERVER_COMPLETE", "CLIENT_ERROR", "CLIENT_COMPLETE"}

Seqs == 1..MaxCalls

NoPayload == [pcase |-> "PAYLOAD_NOT_SET", rcase |-> "", init |-> FALSE]

WeChatRequests ==
  {[pcase |-> "WECHATREQUEST", rcase |-> r, init |-> FALSE] :
     r \in {"SOCKETREQUEST", "LONGLINKREQUEST", "SHORTLINKREQUEST", "REQUEST_NOT_SET"}}
  \cup {[pcase |-> "WECHATREQUEST", rcase |-> "LONGLINKREQUEST", init |-> TRUE]}

Payloads ==
  WeChatRequests
  \cup {[pcase |-> "SYSTEMEVENTREQUEST", rcase |-> "", init |-> FALSE],
        [pcase |-> "WECHATRESPONSE", rcase |-> "", init |-> FALSE]}

\* Frames the server can put on the stream: with an ack (one payload of each
\* payload case), and without (every payload).
AckPayloads == {p \in Payloads : p.rcase \in {"", "SHORTLINKREQUEST"}}

InFrames ==
  [seq : 0..MaxInSeq, ack : 1..MaxCalls, payload : AckPayloads]
  \cup [seq : 0..MaxInSeq, ack : {0}, payload : Payloads]

\* An outbound ActionMessage: header seq/ack (0 = not set) and the payload kind.
ActionMessage(payload, seq, ack) == [seq |-> seq, ack |-> ack, payload |-> payload]

\* Promise states.
NotCreated == [kind |-> "none", reason |-> "", payload |-> NoPayload, ack |-> 0]

Unsettled == [kind |-> "unsettled", reason |-> "", payload |-> NoPayload, ack |-> 0]

\* SubResponseWrap {ack: seq, payload}
SubResponseWrap(payload, seq) ==
  [kind |-> "SubResponseWrap", reason |-> "", payload |-> payload, ack |-> seq]

\* new IOError("subRequest timeout")
TimeoutError == [kind |-> "IOError", reason |-> "subRequest timeout", payload |-> NoPayload, ack |-> 0]

\* SubRequestCancelError thrown by the guard of __sendMessage (no cause, with message)
ChannelClosedError(reason) ==
  [kind |-> "SubRequestCancelError:send", reason |-> reason, payload |-> NoPayload, ack |-> 0]

\* SubRequestCancelError built by _failAllPendingRequest (with cause)
SubRequestCancelError(reason) ==
  [kind |-> "SubRequestCancelError:cancel", reason |-> reason, payload |-> NoPayload, ack |-> 0]

\* A promise fulfilled with undefined (Promise<void>)
Void == [kind |-> "void", reason |-> "", payload |-> NoPayload, ack |-> 0]

\* A promise settles once: resolve/reject on a settled promise changes nothing.
Settle(p, outcome) == IF p.kind = "unsettled" THEN outcome ELSE p

\* The record of a step.
Step(op, callback) == [op |-> op, callback |-> callback]

\* ------------------------------------------------- the pending-request table
\* The table with everything a PromiseCallback reaches: its timer handle and
\* the promise behind its resolve/reject pair.
Table ==
  [pending |-> _pendingCallbacks, timers |-> timers,
   promise |-> promise, calls |-> settleCalls]

SetTable(t) ==
  /\ _pendingCallbacks' = t.pending
  /\ timers' = t.timers
  /\ promise' = t.promise
  /\ settleCalls' = t.calls

tableVars == <<_pendingCallbacks, timers, promise, settleCalls>>

\* The timeout handle a PromiseCallback holds is cleared when it resolves or
\* rejects (the class itself is outside the sources at hand).
ClearTimeout(t, k) == [t EXCEPT !.timers = @ \ {k}]

\* p.resolve(value) on the PromiseCallback built from the promise's
\* (resolve, reject, timeoutId): invoke resolve, clear the timer.
PromiseCallbackResolve(t, k, value) ==
  ClearTimeout([t EXCEPT !.promise[k] = Settle(@, value),
                         !.calls[k].resolve = @ + 1], k)

\* p.reject(error): invoke reject, clear the timer.
PromiseCallbackReject(t, k, error) ==
  ClearTimeout([t EXCEPT !.promise[k] = Settle(@, error),
                         !.calls[k].reject = @ + 1], k)

\* _completePendingRequest(ack, payload, seq)
CompletePendingRequest(t, ack, payload, seq) ==
  IF ack \in t.pending
    THEN PromiseCallbackResolve([t EXCEPT !.pending = @ \ {ack}], ack,
                                SubResponseWrap(payload, seq))
    ELSE t

\* Mutant of FailPendingRequest: the request is rejected, its entry is kept.
FailPendingRequest_keeps(t, ack, error) ==
  IF ack \in t.pending THEN PromiseCallbackReject(t, ack, error) ELSE t

\* Mutant of FailPendingRequest: the table is cleared, not only the entry of ack.
FailPendingRequest_clears(t, ack, error) ==
  IF ack \in t.pending
    THEN PromiseCallbackReject([t EXCEPT !.pending = {}], ack, error)
    ELSE t

\* _failPendingRequest(ack, error)
FailPendingRequest(t, ack, error) ==
  IF ack \in t.pending
    THEN PromiseCallbackReject([t EXCEPT !.pending = @ \ {ack}], ack, error)
    ELSE t

RECURSIVE RejectEach(_, _, _)
RejectEach(t, ks, error) ==
  IF ks = {} THEN t
  ELSE LET k == CHOOSE x \in ks : \A y \in ks : x <= y
       IN RejectEach(PromiseCallbackReject(t, k, error), ks \ {k}, error)

\* _failAllPendingRequest(status, error)
FailAllPendingRequest(t, status) ==
  [RejectEach(t, t.pending, SubRequestCancelError(status)) EXCEPT !.pending = {}]

\* ------------------------------------------------------------------ sending
\* Mutant of Sendable: the guard is missing.
Sendable_always(status) == TRUE

\* Mutant of Sendable: every status but OK is refused.
Sendable_okOnly(status) == status = "OK"

\* The guard of __sendMessage: the statuses in which it does not throw.
Sendable(status) == status = "OK" \/ status = "SERVER_COMPLETE"

\* __sendMessage(payload, seq, ack) from the send-only branch of _sendMessage:
\* the frame is written, or the guard throws, the async call's promise rejects
\* and nothing is written.
SendOrDrop(payload, seq, ack) ==
  IF Sendable(_status)
    THEN wrote' = <<ActionMessage(payload, seq, ack)>>
    ELSE wrote' = <<>>

\* Mutant of SubReply: the inbound seq goes out as the frame's seq, not its ack.
SubReply_swapped(ack, reply) == SendOrDrop(reply, ack, 0)

\* subReply(ack, reply)
SubReply(ack, reply) == SendOrDrop(reply, 0, ack)

\* Mutant of NextSeqId: the counter is not advanced past 1.
NextSeqId_stuck(seqId) == IF seqId = 0 THEN 1 ELSE seqId

\* ++this._seqId
NextSeqId(seqId) == seqId + 1

\* _sendMessage(request, false, ack): request (ack = 0) and subReplyAndRequest
SendCorrelated(ack) ==
  /\ _seqId < MaxCalls
  /\ LET newSeqId == NextSeqId(_seqId)
         registered == [Table EXCEPT !.timers = @ \cup {newSeqId},
                                     !.pending = @ \cup {newSeqId},
                                     !.promise[newSeqId] = Unsettled]
     IN /\ _seqId' = newSeqId
        /\ assigned' = Append(assigned, newSeqId)
        /\ IF Sendable(_status)
             THEN /\ wrote' = <<ActionMessage("REQUEST", newSeqId, ack)>>
                  /\ SetTable(registered)
             ELSE \* the throw inside the executor rejects the promise; the
                  \* entry and its timer stay
                  /\ wrote' = <<>>
                  /\ SetTable([registered EXCEPT
                                 !.promise[newSeqId] = ChannelClosedError(_status),
                                 !.calls[newSeqId].reject = @ + 1])
        /\ last' = Step("request", "")
        /\ UNCHANGED fileVars
        /\ returned' = NotCreated
  /\ UNCHANGED <<_status, cancelled, ended, forwards>>

Request == SendCorrelated(0)

SubReplyAndRequest == \E ack \in 1..MaxInSeq : SendCorrelated(ack)

\* Mutant of SendOnlyResult: the rejection is swallowed, as in subReply.
SendOnlyResult_swallowed(status) == Void

\* The promise of the async _sendMessage(request, true): fulfilled with
\* undefined, or rejected with what the guard of __sendMessage threw.
SendOnlyResult(status) ==
  IF Sendable(status) THEN Void ELSE ChannelClosedError(status)

\* subRequest(request, true): _sendMessage(request, true)
SendOnly ==
  /\ SendOrDrop("REQUEST", 0, 0)
  /\ returned' = SendOnlyResult(_status)
  /\ last' = Step("sendOnly", "")
  /\ UNCHANGED fileVars
  /\ UNCHANGED <<_status, _seqId, tableVars, assigned, cancelled, ended, forwards>>

\* ----------------------------------------------------------------- teardown
\* Mutant of ClientError: the stream is cancelled before the status is set, so
\* the stream error the cancel provokes still finds OK and fails the requests.
ClientError_cancelFirst ==
  IF _status # "OK"
    THEN UNCHANGED <<tableVars, _status, cancelled, ended>>
    ELSE /\ SetTable(FailAllPendingRequest(Table, "SERVER_ERROR"))
         /\ _status' = "CLIENT_ERROR"
         /\ cancelled' = cancelled + 1
         /\ ended' = ended

\* Mutant of ClientError: the status guard is missing.
ClientError_unguarded ==
  /\ SetTable(FailAllPendingRequest(Table, "CLIENT_ERROR"))
  /\ _status' = "CLIENT_ERROR"
  /\ cancelled' = cancelled + 1
  /\ ended' = ended

\* error(e), on the table, the status and the stream
ClientError ==
  IF _status # "OK"
    THEN UNCHANGED <<tableVars, _status, cancelled, ended>>
    ELSE /\ SetTable(FailAllPendingRequest(Table, "CLIENT_ERROR"))
         /\ _status' = "CLIENT_ERROR"
         /\ cancelled' = cancelled + 1
         /\ ended' = ended

\* Mutant of ClientComplete: the status guard is missing.
ClientComplete_unguarded ==
  /\ SetTable(FailAllPendingRequest(Table, "CLIENT_COMPLETE"))
  /\ _status' = "CLIENT_COMPLETE"
  /\ ended' = ended + 1
  /\ cancelled' = cancelled

\* complete(), on the table, the status and the stream
ClientComplete ==
  IF _status # "OK"
    THEN UNCHANGED <<tableVars, _status, cancelled, ended>>
    ELSE /\ SetTable(FailAllPendingRequest(Table, "CLIENT_COMPLETE"))
         /\ _status' = "CLIENT_COMPLETE"
         /\ ended' = ended + 1
         /\ cancelled' = cancelled

\* Mutant of ServerSignal: the status is set, the pending requests are left alone.
ServerSignal_statusOnly(status) ==
  IF _status # "OK"
    THEN UNCHANGED <<tableVars, _status>>
    ELSE /\ UNCHANGED tableVars
         /\ _status' = status

\* stream 'end' / 'error' handlers
ServerSignal(status) ==
  IF _status # "OK"
    THEN UNCHANGED <<tableVars, _status>>
    ELSE /\ SetTable(FailAllPendingRequest(Table, status))
         /\ _status' = status

Error ==
  /\ ClientError
  /\ last' = Step("error", "")
  /\ UNCHANGED fileVars
  /\ returned' = NotCreated
  /\ wrote' = <<>>
  /\ UNCHANGED <<_seqId, assigned, forwards>>

Complete ==
  /\ ClientComplete
  /\ last' = Step("complete", "")
  /\ UNCHANGED fileVars
  /\ returned' = NotCreated
  /\ wrote' = <<>>
  /\ UNCHANGED <<_seqId, assigned, forwards>>

OnEnd ==
  /\ ServerSignal("SERVER_COMPLETE")
  /\ last' = Step("end", "")
  /\ UNCHANGED fileVars
  /\ returned' = NotCreated
  /\ wrote' = <<>>
  /\ UNCHANGED <<_seqId, assigned, cancelled, ended, forwards>>

OnError ==
  /\ ServerSignal("SERVER_ERROR")
  /\ last' = Step("streamError", "")
  /\ UNCHANGED fileVars
  /\ returned' = NotCreated
  /\ wrote' = <<>>
  /\ UNCHANGED <<_seqId, assigned, cancelled, ended, forwards>>

\* the setTimeout callback of request k
Timeout(k) ==
  /\ k \in timers
  /\ SetTable(FailPendingRequest([Table EXCEPT !.timers = @ \ {k}], k, TimeoutError))
  /\ last' = Step("timeout", "")
  /\ UNCHANGED fileVars
  /\ returned' = NotCreated
  /\ wrote' = <<>>
  /\ UNCHANGED <<_status, _seqId, assigned, cancelled, ended, forwards>>

\* ------------------------------------------------------------ inbound frames
\* Mutant of Surfaced: a system event is acknowledged but not surfaced.
Surfaced_eventDropped(f) ==
  IF f.ack # 0 \/ f.payload.pcase \in {"WECHATREQUEST", "SYSTEMEVENTREQUEST"} THEN ""
  ELSE "onMessageCallback"

\* Mutant of Surfaced: the payload is surfaced whether or not the frame has an ack.
Surfaced_ackBlind(f) ==
  IF f.payload.pcase = "WECHATREQUEST" THEN ""
  ELSE IF f.payload.pcase = "SYSTEMEVENTREQUEST" THEN "onSystemEventCallback"
  ELSE "onMessageCallback"

\* The external callback _onServerMessage invokes for a frame, if any.
Surfaced(f) ==
  IF f.ack # 0 \/ f.payload.pcase = "WECHATREQUEST" THEN ""
  ELSE IF f.payload.pcase = "SYSTEMEVENTREQUEST" THEN "onSystemEventCallback"
  ELSE "onMessageCallback"

Forwardable == {"SOCKETREQUEST", "LONGLINKREQUEST", "SHORTLINKREQUEST"}

\* The first await of _handleSocketRequest / _handleLongLinkRequest /
\* _handleShortLinkRequest: getLongLinkProxy() for a long link, send() otherwise.
Forwarding(payload, seq) ==
  [rcase |-> payload.rcase, init |-> payload.init, ack |-> seq,
   pc |-> IF payload.rcase = "LONGLINKREQUEST" THEN "proxy" ELSE "send"]

\* _onServerMessage(serverMessage), up to its first await, with at most
\* inFlight proxied requests suspended at a time
OnServerMessageWithin(f, inFlight) ==
  /\ last' = Step("data", Surfaced(f))
  /\ UNCHANGED fileVars
  /\ returned' = NotCreated
  /\ UNCHANGED <<_seqId, assigned>>
  /\ IF f.ack # 0
       THEN /\ SetTable(CompletePendingRequest(Table, f.ack, f.payload, f.seq))
            /\ wrote' = <<>>
            /\ UNCHANGED <<_status, cancelled, ended, forwards>>
     ELSE IF f.payload.pcase = "WECHATREQUEST"
       THEN IF f.payload.rcase \in Forwardable
              THEN /\ Len(forwards) < inFlight
                   /\ forwards' = Append(forwards, Forwarding(f.payload, f.seq))
                   /\ wrote' = <<>>
                   /\ UNCHANGED <<tableVars, _status, cancelled, ended>>
              ELSE \* unsupported request case: thrown, caught, this.error(...)
                   /\ ClientError
                   /\ wrote' = <<>>
                   /\ UNCHANGED forwards
     ELSE IF f.payload.pcase = "SYSTEMEVENTREQUEST"
       THEN /\ SubReply(f.seq, "SYSTEMEVENTRESPONSE")
            /\ UNCHANGED <<tableVars, _status, cancelled, ended, forwards>>
     ELSE /\ wrote' = <<>>
          /\ UNCHANGED <<tableVars, _status, cancelled, ended, forwards>>

\* _onServerMessage(serverMessage), up to its first await
OnServerMessage(f) == OnServerMessageWithin(f, MaxForward)

OnData == \E f \in InFrames : OnServerMessage(f)

\* The handlers in flight without the i-th, which has returned.
Remove(s, i) == SubSeq(s, 1, i - 1) \o SubSeq(s, i + 1, Len(s))

\* getLongLinkProxy() resolved: sendInitData in init mode, else await send()
LongLinkProxyReady(i) ==
  /\ i \in 1..Len(forwards)
  /\ forwards[i].pc = "proxy"
  /\ forwards' = IF forwards[i].init
                   THEN Remove(forwards, i)   \* sendInitData(payload, this, ack)
                   ELSE [forwards EXCEPT ![i].pc = "send"]
  /\ last' = Step("proxy", "")
  /\ UNCHANGED fileVars
  /\ returned' = NotCreated
  /\ wrote' = <<>>
  /\ UNCHANGED <<_status, _seqId, tableVars, assigned, cancelled, ended>>

\* The reply _handleLongLinkRequest / _handleShortLinkRequest wrap the response in.
ResponseCase(rcase) ==
  IF rcase = "LONGLINKREQUEST" THEN "LONGLINKRESPONSE" ELSE "SHORTLINKRESPONSE"

\* Mutant of TransportReturns: the dispatch replies for a socket session too.
TransportReturns_socketReplies(i) ==
  /\ i \in 1..Len(forwards)
  /\ forwards[i].pc = "send"
  /\ forwards' = Remove(forwards, i)
  /\ SubReply(forwards[i].ack, ResponseCase(forwards[i].rcase))
  /\ last' = Step("transport", "")
  /\ returned' = NotCreated
  /\ UNCHANGED fileVars
  /\ UNCHANGED <<_status, _seqId, tableVars, assigned, cancelled, ended>>

\* The awaited transport send() resolved.
TransportReturns(i) ==
  /\ i \in 1..Len(forwards)
  /\ forwards[i].pc = "send"
  /\ forwards' = Remove(forwards, i)
  /\ IF forwards[i].rcase = "SOCKETREQUEST"
       THEN wrote' = <<>>
       ELSE SubReply(forwards[i].ack, ResponseCase(forwards[i].rcase))
  /\ last' = Step("transport", "")
  /\ UNCHANGED fileVars
  /\ returned' = NotCreated
  /\ UNCHANGED <<_status, _seqId, tableVars, assigned, cancelled, ended>>

\* Mutant of ForwardingFails: the error is logged, error(e) is not called.
ForwardingFails_reportOnly(i) ==
  /\ i \in 1..Len(forwards)
  /\ forwards[i].pc \in {"proxy", "send"}
  /\ forwards' = Remove(forwards, i)
  /\ last' = Step("forwardFail", "")
  /\ UNCHANGED fileVars
  /\ returned' = NotCreated
  /\ wrote' = <<>>
  /\ UNCHANGED <<_seqId, assigned, tableVars, _status, cancelled, ended>>

\* An awaited transport call rejected (or sendInitData threw): caught, this.error(...)
ForwardingFails(i) ==
  /\ i \in 1..Len(forwards)
  /\ forwards[i].pc \in {"proxy", "send"}
  /\ forwards' = Remove(forwards, i)
  /\ ClientError
  /\ last' = Step("forwardFail", "")
  /\ UNCHANGED fileVars
  /\ returned' = NotCreated
  /\ wrote' = <<>>
  /\ UNCHANGED <<_seqId, assigned>>

\* ------------------------------------------------------------ initial state
ClientInit ==
  /\ _status = "OK"
  /\ _seqId = 0
  /\ _pendingCallbacks = {}
  /\ timers = {}
  /\ promise = [k \in Seqs |-> NotCreated]
  /\ settleCalls = [k \in Seqs |-> [resolve |-> 0, reject |-> 0]]
  /\ assigned = <<>>
  /\ wrote = <<>>
  /\ cancelled = 0
  /\ ended = 0
  /\ forwards = <<>>
  /\ last = Step("init", "")
  /\ returned = NotCreated

\* prepareImageUpload has not been called.
UploadIdle ==
  /\ imageData = <<>>
  /\ useThumb = FALSE
  /\ thumbImageData = <<>>
  /\ prepared = <<>>

\* ------------------------------------------------------------- downloadFile
Bytes == 0..MaxByte

\* AES-ECB with a given key: every block goes through the same keyed
\* permutation, with no initialization vector (crypto.ts is outside the sources
\* at hand; a block is one byte here).
AesEcbEncrypt(key, data) ==
  [i \in 1..Len(data) |-> (data[i] + key + 1) % (MaxByte + 1)]

AesEcbDecrypt(key, data) ==
  [i \in 1..Len(data) |-> (data[i] + 2 * (MaxByte + 1) - key - 1) % (MaxByte + 1)]

\* A decoded FileResponse: body["retcode"] and body["filedata"].
FileResponse(retcode, filedata) == [retcode |-> retcode, filedata |-> filedata]

FileResponses == {FileResponse(r, <<d>>) : r \in Bytes, d \in Bytes}

\* The bytes of one response on the wire.
Pack(r) == <<r.retcode>> \o r.filedata

\* What the file server may send: up to n responses, back to back.
RECURSIVE WiresOf(_)
WiresOf(n) ==
  IF n = 0 THEN {<<>>}
  ELSE WiresOf(n - 1) \cup {Pack(r) \o w : r \in FileResponses, w \in WiresOf(n - 1)}

\* The complete responses at the head of a buffer, in order.
RECURSIVE Unpacked(_)
Unpacked(buffer) ==
  IF Len(buffer) < 2 THEN <<>>
  ELSE <<FileResponse(buffer[1], <<buffer[2]>>)>> \o Unpacked(SubSeq(buffer, 3, Len(buffer)))

\* The bytes of a buffer behind its complete responses.
RECURSIVE Remainder(_)
Remainder(buffer) ==
  IF Len(buffer) < 2 THEN buffer ELSE Remainder(SubSeq(buffer, 3, Len(buffer)))

\* fileUnpacker.getDecryptedFileData(response)
GetDecryptedFileData(key, r) == AesEcbDecrypt(key, r.filedata)

\* Outcomes of downloadFile.
NoResult == [kind |-> "none", why |-> "", code |-> 0, data |-> <<>>]

Plaintext(data) == [kind |-> "plaintext", why |-> "", code |-> 0, data |-> data]

\* new Error("... download file failed ..., received null response")
NullResponseError == [kind |-> "DownloadFailed", why |-> "received null response", code |-> 0, data |-> <<>>]

\* new Error("... download file failed ..., retcode: <retCode>")
RetCodeError(retCode) == [kind |-> "DownloadFailed", why |-> "retcode", code |-> retCode, data |-> <<>>]

\* The rejection of socketClient.send, rethrown by the await.
SocketError == [kind |-> "SocketError", why |-> "", code |-> 0, data |-> <<>>]

\* The GrpcClient takes no part in a download.
DownloadIdle ==
  /\ pc = "idle"
  /\ session = "none"
  /\ unpackaeskey = 0
  /\ wire = <<>>
  /\ fileUnpacker = <<>>
  /\ response = <<>>
  /\ fed = <<>>
  /\ decrypted = FALSE
  /\ ret = NoResult

\* downloadFile(fileDownloadRequest, traceId) up to `await socketClient.send(...)`
DownloadInit ==
  /\ ClientInit
  /\ UploadIdle
  /\ pc = "send"
  /\ session = "connecting"
  /\ unpackaeskey \in Bytes
  /\ wire \in WiresOf(MaxFrames)
  /\ fileUnpacker = <<>>
  /\ response = <<>>      \* let response: FileResponse | null = null
  /\ fed = <<>>
  /\ decrypted = FALSE
  /\ ret = NoResult

\* onConnect: fileUnpacker.reset()
OnConnect ==
  /\ session = "connecting"
  /\ session' = "open"
  /\ fileUnpacker' = <<>>
  /\ UNCHANGED <<pc, unpackaeskey, wire, response, fed, decrypted, ret, clientVars, uploadVars>>

\* Mutant of OnReceiveReturns: the chunk is reported consumed whatever it held.
OnReceiveReturns_true(responseList) == TRUE

\* The value onReceive returns: whether update(data) yielded a response.
OnReceiveReturns(responseList) == Len(responseList) # 0

\* A chunk of n bytes arrives: onReceive(data); the session is over once
\* onReceive returns true.
OnReceive(n) ==
  /\ session = "open"
  /\ n <= Len(wire)
  /\ LET data == SubSeq(wire, 1, n)
         responseList == Unpacked(fileUnpacker \o data)   \* fileUnpacker.update(data)
     IN /\ fileUnpacker' = Remainder(fileUnpacker \o data)
        /\ response' = IF Len(responseList) # 0 THEN <<responseList[1]>> ELSE response
        /\ session' = IF OnReceiveReturns(responseList) THEN "consumed" ELSE "open"
        /\ fed' = Append(fed, data)
        /\ wire' = SubSeq(wire, n + 1, Len(wire))
  /\ UNCHANGED <<pc, unpackaeskey, decrypted, ret, clientVars, uploadVars>>

\* The file server closes the connection: send() resolves.
SessionEnds ==
  /\ session = "open"
  /\ session' = "closed"
  /\ UNCHANGED <<pc, unpackaeskey, wire, fileUnpacker, response, fed, decrypted, ret, clientVars, uploadVars>>

\* The connection fails: send() rejects.
SessionFails ==
  /\ session \in {"connecting", "open"}
  /\ session' = "failed"
  /\ UNCHANGED <<pc, unpackaeskey, wire, fileUnpacker, response, fed, decrypted, ret, clientVars, uploadVars>>

\* Mutant of RetCodeFails: the result code is not looked at.
RetCodeFails_never(retCode) == FALSE

\* if (retCode !== 0)
RetCodeFails(retCode) == retCode # 0

\* downloadFile after `await socketClient.send(...)`
DownloadResumes ==
  /\ pc = "send"
  /\ session \in {"consumed", "closed", "failed"}
  /\ IF session = "failed"
       THEN pc' = "thrown" /\ ret' = SocketError /\ decrypted' = FALSE
     ELSE IF response = <<>>
       THEN pc' = "thrown" /\ ret' = NullResponseError /\ decrypted' = FALSE
     ELSE IF RetCodeFails(response[1].retcode)
       THEN pc' = "thrown" /\ ret' = RetCodeError(response[1].retcode) /\ decrypted' = FALSE
     ELSE /\ pc' = "returned"
          /\ ret' = Plaintext(GetDecryptedFileData(unpackaeskey, response[1]))
          /\ decrypted' = TRUE
  /\ UNCHANGED <<session, unpackaeskey, wire, fileUnpacker, response, fed, clientVars, uploadVars>>

DownloadNext ==
  \/ OnConnect
  \/ \E n \in 1..MaxChunk : OnReceive(n)
  \/ SessionEnds
  \/ SessionFails
  \/ DownloadResumes

DownloadSpec == DownloadInit /\ [][DownloadNext]_vars

\* ------------------------------------------------------- prepareImageUpload
\* Image and thumbnail contents.
RECURSIVE DatasOf(_)
DatasOf(n) ==
  IF n = 0 THEN {} ELSE DatasOf(n - 1) \cup [1..n -> Bytes]

RECURSIVE Sum(_)
Sum(data) == IF data = <<>> THEN 0 ELSE Head(data) + Sum(Tail(data))

\* The content hash (utils/crypto md5): a digest of fixed size, so distinct
\* data may share one.
Md5(data) == <<"md5", Len(data), Sum(data) % (MaxByte + 1)>>

\* The running sums of Adler-32 from seed 0 (utils/crypto adler32).
RECURSIVE AdlerA(_)
AdlerA(data) ==
  IF data = <<>> THEN 0 ELSE (AdlerA(SubSeq(data, 1, Len(data) - 1)) + data[Len(data)]) % 65521

RECURSIVE AdlerB(_)
AdlerB(data) ==
  IF data = <<>> THEN 0 ELSE (AdlerB(SubSeq(data, 1, Len(data) - 1)) + AdlerA(data)) % 65521

Adler32(data) == AdlerB(data) * 65536 + AdlerA(data)

\* new FileUploadDataMeta().setSize(..).setChecksum(..).setMd5(..)
FileUploadDataMeta(data) ==
  [size |-> Len(data), checksum |-> Adler32(data), md5 |-> Md5(data)]

\* new FileUploadEncryptedDataMeta().setAeskey(..).setSize(..).setChecksum(..).setMd5(..)
FileUploadEncryptedDataMeta(aesKey, data) ==
  [aeskey |-> aesKey, size |-> Len(data), checksum |-> Adler32(data), md5 |-> Md5(data)]

\* encryptUploadData(plainData, aesKey)
EncryptUploadData(plainData, aesKey) ==
  LET encryptedData == AesEcbEncrypt(aesKey, plainData)
  IN [plainDataMeta |-> FileUploadDataMeta(plainData),
      encryptedDataMeta |-> FileUploadEncryptedDataMeta(aesKey, encryptedData),
      encryptedData |-> encryptedData]

\* generateUploadImageMeta(imageData, aesKey); width and height are probed from
\* the plaintext and play no part in the data bag.
GenerateUploadImageMeta(data, aesKey) ==
  LET imageEncryptedRet == EncryptUploadData(data, aesKey)
  IN [imageMeta |-> [plaindatameta |-> imageEncryptedRet.plainDataMeta,
                     encrypteddatameta |-> imageEncryptedRet.encryptedDataMeta],
      encryptedImageData |-> imageEncryptedRet.encryptedData]

\* Mutant of DataBagKey: the bag is keyed by the plaintext's content hash.
DataBagKey_plain(imageMeta) == imageMeta.plaindatameta.md5

\* imageMeta.getEncrypteddatameta()?.getMd5()
DataBagKey(imageMeta) == imageMeta.encrypteddatameta.md5

\* dataBag[key] = data
Put(dataBag, key, data) == (key :> data) @@ dataBag

NoThumb == [plaindatameta |-> FileUploadDataMeta(<<>>),
            encrypteddatameta |-> FileUploadEncryptedDataMeta(0, <<>>)]

\* The call prepareImageUpload(imageData, useThumb)
UploadInit ==
  /\ ClientInit
  /\ DownloadIdle
  /\ imageData \in DatasOf(MaxData)
  /\ useThumb \in BOOLEAN
  /\ thumbImageData = <<>>
  /\ prepared = <<>>

\* prepareImageUpload, with the key AesGenKey() drew
PrepareImageUpload(genKey, thumb) ==
  /\ prepared = <<>>
  /\ LET uploadImageMeta == GenerateUploadImageMeta(imageData, genKey)
         aesKey == uploadImageMeta.imageMeta.encrypteddatameta.aeskey
         dataBag == Put(<<>>, DataBagKey(uploadImageMeta.imageMeta),
                        uploadImageMeta.encryptedImageData)
         uploadThumbImageMeta == GenerateUploadImageMeta(thumb, aesKey)
     IN IF useThumb
          THEN /\ thumbImageData' = thumb
               /\ prepared' =
                    <<[imagemeta |-> uploadImageMeta.imageMeta,
                       thumbimagemeta |-> uploadThumbImageMeta.imageMeta,
                       aesKey |-> aesKey,
                       dataBag |-> Put(dataBag, DataBagKey(uploadThumbImageMeta.imageMeta),
                                       uploadThumbImageMeta.encryptedImageData)]>>
          ELSE /\ thumbImageData' = <<>>
               /\ thumb = imageData     \* createImageThumb is not called
               /\ prepared' =
                    <<[imagemeta |-> uploadImageMeta.imageMeta,
                       thumbimagemeta |-> NoThumb,
                       aesKey |-> aesKey,
                       dataBag |-> dataBag]>>
  /\ UNCHANGED <<imageData, useThumb, clientVars, downloadVars>>

UploadNext == \E genKey \in Bytes, thumb \in DatasOf(MaxData) : PrepareImageUpload(genKey, thumb)

UploadSpec == UploadInit /\ [][UploadNext]_vars

\* --------------------------------------------------- GrpcClient specification
Init == ClientInit /\ DownloadIdle /\ UploadIdle

Next ==
  \/ Request
  \/ SubReplyAndRequest
  \/ SendOnly
  \/ Error
  \/ Complete
  \/ OnEnd
  \/ OnError
  \/ OnData
  \/ \E k \in Seqs : Timeout(k)
  \/ \E i \in 1..MaxForward : LongLinkProxyReady(i)
  \/ \E i \in 1..MaxForward : TransportReturns(i)
  \/ \E i \in 1..MaxForward : ForwardingFails(i)

Spec == Init /\ [][Next]_vars

\* ------------------------------------------- interleaved proxied requests
\* Frames for the interleaving of proxied requests: short-link and long-link
\* requests with distinct seqs, and the replies to our own requests.
PipelineFrames ==
  {f \in [seq : 1..MaxPipeline, ack : {0}, payload : WeChatRequests] :
     f.payload.rcase \in {"SHORTLINKREQUEST", "LONGLINKREQUEST"} /\ ~f.payload.init}
  \cup {f \in [seq : {0}, ack : Seqs, payload : Payloads] :
          f.payload.pcase = "WECHATRESPONSE"}

\* Mutant of Deliver: a frame is taken up only when no earlier forwarding is
\* still awaited (the 'data' handler awaiting _onServerMessage).
Deliver_serial(f) == forwards = <<>> /\ OnServerMessageWithin(f, MaxPipeline)

\* The 'data' handler: _onServerMessage(serverMessage).then(), not awaited
Deliver(f) == OnServerMessageWithin(f, MaxPipeline)

PipelineData == \E f \in PipelineFrames : Deliver(f)

PipelineNext ==
  \/ Request
  \/ SubReplyAndRequest
  \/ SendOnly
  \/ Error
  \/ Complete
  \/ OnEnd
  \/ OnError
  \/ PipelineData
  \/ \E k \in Seqs : Timeout(k)
  \/ \E i \in 1..MaxPipeline : LongLinkProxyReady(i)
  \/ \E i \in 1..MaxPipeline : TransportReturns(i)
  \/ \E i \in 1..MaxPipeline : ForwardingFails(i)

PipelineSpec == Init /\ [][PipelineNext]_vars

\* An armed timer fires unless it is cleared first (setTimeout).
LiveSpec == Spec /\ \A k \in Seqs : WF_vars(Timeout(k))

\* ================================================================== claims
Terminal == Status \ {"OK"}

\* The latest promise: the one the latest correlated send returned.
LatestPromise == promise[_seqId]

UnsupportedFrames ==
  {f \in InFrames : f.ack = 0 /\ f.payload.pcase = "WECHATREQUEST"
                    /\ f.payload.rcase \notin Forwardable}

\* A step in which forwarding an inbound proxied request raises: an unsupported
\* request case, or a rejected transport call.
ForwardingRaises ==
  \/ \E f \in UnsupportedFrames : OnServerMessage(f)
  \/ \E i \in 1..Len(forwards) : ForwardingFails(i)

\* The pending requests all fail with a SubRequestCancelError of this reason
\* and the table is cleared.
AllPendingFailWith(reason) ==
  /\ _pendingCallbacks' = {}
  /\ \A k \in _pendingCallbacks : promise'[k] = SubRequestCancelError(reason)

\* ---- C1
\* C1: the k-th correlated send (request or replyAndRequest) is assigned
\* sequence number k, whatever replies, timeouts and teardown come between:
\* identifiers start at 1, increase by one per call, and are never reused.
C1_KthCallGetsSeqK ==
  /\ _seqId = Len(assigned)
  /\ \A i \in 1..Len(assigned) : assigned[i] = i

\* Two calls, the second made after the first was answered and the stream torn down.
C1_Witness ==
  /\ Len(assigned) >= 2
  /\ promise[1].kind = "SubResponseWrap"
  /\ promise[2].kind = "SubRequestCancelError:send"

\* ---- C2
\* C2 (as claimed): a frame with ack = k resolves the request registered under k,
\* and no other, with the frame's payload (and header seq), exactly once; a
\* frame whose ack matches no entry changes nothing.
C2_AckResolvesRegisteredRequest ==
  [][\A f \in InFrames : (f.ack # 0 /\ OnServerMessage(f)) =>
       IF f.ack \in _pendingCallbacks
         THEN /\ promise'[f.ack] = SubResponseWrap(f.payload, f.seq)
              /\ settleCalls'[f.ack] = [resolve |-> 1, reject |-> 0]
              /\ _pendingCallbacks' = _pendingCallbacks \ {f.ack}
              /\ \A j \in Seqs \ {f.ack} :
                   promise'[j] = promise[j] /\ settleCalls'[j] = settleCalls[j]
         ELSE UNCHANGED <<tableVars, _status, _seqId, cancelled, ended, forwards>>
    ]_vars

\* ---- C3
\* C3 (as claimed): when the timer of the request registered under k fires (no
\* frame with ack = k came first), that request fails with the timeout error,
\* and from then on the table has no entry for k.
C3_TimeoutFailsRequest ==
  [][/\ \A k \in Seqs : Timeout(k) =>
          promise'[k] = TimeoutError /\ k \notin _pendingCallbacks'
     /\ \A k \in 1.._seqId : k \notin _pendingCallbacks => k \notin _pendingCallbacks'
    ]_vars

\* ---- C4
\* C4: on stream end in status OK every pending request fails with reason
\* SERVER_COMPLETE and the status becomes SERVER_COMPLETE; after that, error(e)
\* and complete() change neither status, table, promises nor the stream.
C4_EndThenClientCallsAreNoOps ==
  [][/\ (last'.op = "end" /\ _status = "OK") =>
          _status' = "SERVER_COMPLETE" /\ AllPendingFailWith("SERVER_COMPLETE")
     /\ (last'.op \in {"error", "complete"} /\ _status = "SERVER_COMPLETE") =>
          UNCHANGED <<_status, tableVars, cancelled, ended>>
    ]_vars

\* error(e) or complete() called after a stream end that failed a pending request.
C4_Witness ==
  /\ last.op \in {"error", "complete"}
  /\ _status = "SERVER_COMPLETE"
  /\ \E k \in Seqs : promise[k] = SubRequestCancelError("SERVER_COMPLETE")

\* ---- C5
\* C5: the stream is cancelled or ended at most once in total, and an error(e)
\* or complete() call made in a terminal status fails no request and performs
\* no stream operation.
C5_ErrorCompleteIdempotent ==
  [][/\ cancelled' + ended' <= 1
     /\ (last'.op \in {"error", "complete"} /\ _status \in Terminal) =>
          UNCHANGED <<_status, tableVars, cancelled, ended>>
    ]_vars

\* error(e) called after complete() had ended the stream.
C5_Witness ==
  /\ last.op = "error"
  /\ _status = "CLIENT_COMPLETE"
  /\ ended = 1
  /\ cancelled = 0

\* ---- C6
\* C6 (as claimed): a correlated send made in any status other than OK fails
\* with the send guard's SubRequestCancelError whose reason is that status.
C6_NonOkCallFailsChannelClosed ==
  (last.op = "request" /\ _status \in Terminal) =>
    LatestPromise = ChannelClosedError(_status)

\* C6 (amended): a correlated send made in SERVER_ERROR, CLIENT_ERROR or
\* CLIENT_COMPLETE fails with the send guard's SubRequestCancelError whose reason
\* is that status, and writes nothing; made in SERVER_COMPLETE (as in OK) it
\* writes its frame and stays pending.
C6_UnsendableCallFailsChannelClosed ==
  last.op = "request" =>
    IF _status \in {"SERVER_ERROR", "CLIENT_ERROR", "CLIENT_COMPLETE"}
      THEN LatestPromise = ChannelClosedError(_status) /\ wrote = <<>>
      ELSE /\ LatestPromise = Unsettled
           /\ _seqId \in _pendingCallbacks
           /\ Len(wrote) = 1
           /\ wrote[1].seq = _seqId

\* A call rejected in CLIENT_ERROR.
C6_Witness ==
  /\ last.op = "request"
  /\ _status = "CLIENT_ERROR"
  /\ LatestPromise = ChannelClosedError("CLIENT_ERROR")

ReplyFrame(i) == ActionMessage(ResponseCase(forwards[i].rcase), 0, forwards[i].ack)

\* A short-link or long-link (non-init) transport returns the response of the
\* i-th forwarding in flight, whose inbound frame carried a seq.
ResponseArrives(i) ==
  /\ TransportReturns(i)
  /\ forwards[i].rcase # "SOCKETREQUEST"
  /\ forwards[i].ack # 0

\* C8 (as claimed): when the transport of a short-link or long-link (non-init)
\* request with seq = s returns, exactly one frame is written, with ack = s and
\* no seq, and the sequence counter and the table are unchanged.
C8_DispatchRepliesWithInboundSeq ==
  [][\A i \in 1..Len(forwards) : ResponseArrives(i) =>
       wrote' = <<ReplyFrame(i)>> /\ UNCHANGED <<_seqId, tableVars>>
    ]_vars

\* C8 (amended): ... exactly one frame is written, with ack = s and no seq, if
\* the status is then OK or SERVER_COMPLETE, and none otherwise; in both cases
\* the sequence counter and the table are unchanged.
C8_DispatchRepliesWhileSendable ==
  [][\A i \in 1..Len(forwards) : ResponseArrives(i) =>
       /\ wrote' = IF _status \in {"OK", "SERVER_COMPLETE"} THEN <<ReplyFrame(i)>> ELSE <<>>
       /\ UNCHANGED <<_seqId, tableVars>>
    ]_vars

\* A short-link response went out as the reply to inbound seq 1.
C8_Witness ==
  /\ last.op = "transport"
  /\ wrote = <<ActionMessage("SHORTLINKRESPONSE", 0, 1)>>

\* ---- C9
\* C9 (as claimed): the resolve/reject pair of every request is invoked at most
\* once in total, and exactly once when its entry has left the table.
C9_CompletedExactlyOnce ==
  \A k \in 1.._seqId :
    LET n == settleCalls[k].resolve + settleCalls[k].reject
    IN n <= 1 /\ (k \notin _pendingCallbacks => n = 1)

\* ---- C10
\* A step leaves a status other than OK as it is.
TerminalStatusStays == _status \in Terminal => UNCHANGED _status

\* C10: the status starts at OK, and once it is not OK it never changes.
C10_StatusMonotonic == _status = "OK" /\ [][TerminalStatusStays]_vars

\* A stream end, error(e), complete() or forwarding failure met SERVER_ERROR.
C10_Witness ==
  /\ last.op \in {"end", "error", "complete", "forwardFail"}
  /\ _status = "SERVER_ERROR"

\* ---- C11
\* The one frame a sendOnly call writes: neither seq nor ack.
SendOnlyFrame == ActionMessage("REQUEST", 0, 0)

\* C11 (as claimed): sendOnly registers no pending request; in status OK it
\* writes exactly one frame with neither seq nor ack, and in every other status
\* it fails to its caller with the send guard's error and writes no frame.
C11_SendOnlyFailsUnlessOk ==
  [][last'.op = "sendOnly" =>
       /\ UNCHANGED <<_seqId, tableVars, _status>>
       /\ IF _status = "OK"
            THEN wrote' = <<SendOnlyFrame>> /\ returned' = Void
            ELSE wrote' = <<>> /\ returned' = ChannelClosedError(_status)
    ]_vars

\* C11 (amended): sendOnly registers no pending request; in status OK or
\* SERVER_COMPLETE it writes exactly one frame with neither seq nor ack and does
\* not fail; in SERVER_ERROR, CLIENT_ERROR and CLIENT_COMPLETE it fails to its
\* caller with the send guard's error and writes no frame.
C11_SendOnlyFailsWhenUnsendable ==
  [][last'.op = "sendOnly" =>
       /\ UNCHANGED <<_seqId, tableVars, _status>>
       /\ IF _status \in {"OK", "SERVER_COMPLETE"}
            THEN wrote' = <<SendOnlyFrame>> /\ returned' = Void
            ELSE wrote' = <<>> /\ returned' = ChannelClosedError(_status)
    ]_vars

\* A sendOnly call refused after complete().
C11_Witness ==
  /\ last.op = "sendOnly"
  /\ _status = "CLIENT_COMPLETE"
  /\ returned = ChannelClosedError("CLIENT_COMPLETE")
  /\ wrote = <<>>

\* ---- C12
\* C12: when the timer of the request registered under k fires, the entry of k
\* leaves the table and its promise is failed; every other entry stays in the
\* table with its promise as it was and its callbacks not invoked; the status
\* and the stream are unchanged.
C12_TimeoutIsIsolated ==
  [][\A k \in Seqs : Timeout(k) =>
       /\ _pendingCallbacks' = _pendingCallbacks \ {k}
       /\ promise'[k].kind \in {"IOError", "SubRequestCancelError:send"}
       /\ \A j \in Seqs \ {k} :
            promise'[j] = promise[j] /\ settleCalls'[j] = settleCalls[j]
       /\ UNCHANGED <<_status, cancelled, ended>>
    ]_vars

\* One request timed out while another is still pending and unsettled.
C12_Witness ==
  /\ last.op = "timeout"
  /\ \E k \in Seqs : promise[k] = TimeoutError /\ k \notin _pendingCallbacks
  /\ \E j \in _pendingCallbacks : promise[j] = Unsettled

\* ---- C13
\* Everything fed to the decoder so far, as one buffer.
RECURSIVE Concat(_)
Concat(chunks) ==
  IF chunks = <<>> THEN <<>> ELSE Head(chunks) \o Concat(Tail(chunks))

\* The chunks fed before the latest one.
Front(chunks) == SubSeq(chunks, 1, Len(chunks) - 1)

\* C13: downloadFile is past its await with the session neither closed nor
\* failed only if the decoder has yielded a frame, which the latest chunk fed
\* completed and no earlier one did; and when downloadFile returns, its result
\* is the decryption of the file data of the first frame the fed chunks hold.
C13_ReturnsAfterFrameAssembled ==
  /\ (session = "consumed" \/ (pc # "send" /\ session \notin {"closed", "failed"})) =>
        /\ fed # <<>>
        /\ Unpacked(Concat(Front(fed))) = <<>>
        /\ Unpacked(Concat(fed)) # <<>>
        /\ response = <<Unpacked(Concat(fed))[1]>>
  /\ pc = "returned" =>
        /\ Unpacked(Concat(fed)) # <<>>
        /\ ret = Plaintext(AesEcbDecrypt(unpackaeskey, Unpacked(Concat(fed))[1].filedata))

\* downloadFile returned the plaintext of a frame that the second chunk completed.
C13_Witness ==
  /\ pc = "returned"
  /\ Len(fed) = 2
  /\ Unpacked(fed[1]) = <<>>
  /\ Unpacked(fed[1] \o fed[2]) # <<>>
  /\ ret.kind = "plaintext"
  /\ wire # <<>>

\* ---- C14
\* What prepareImageUpload returned.
Returned == prepared[1]

\* The ciphertexts of the image and of its thumbnail under the returned key.
EncryptedImage == AesEcbEncrypt(Returned.aesKey, imageData)

EncryptedThumb == AesEcbEncrypt(Returned.aesKey, thumbImageData)

\* The content hashes the encrypted-data metadata declare.
DeclaredImageHash == Returned.imagemeta.encrypteddatameta.md5

DeclaredThumbHash == Returned.thumbimagemeta.encrypteddatameta.md5

\* Every entry of the bag sits under the content hash of the ciphertext it
\* holds, and the metadata declare the content hashes of the two ciphertexts.
KeyedByOwnCiphertextHash ==
  /\ \A key \in DOMAIN Returned.dataBag : Md5(Returned.dataBag[key]) = key
  /\ DeclaredImageHash = Md5(EncryptedImage)
  /\ DeclaredThumbHash = Md5(EncryptedThumb)

\* C14 (as claimed): with useThumb the bag has exactly two entries, the image
\* ciphertext and the thumbnail ciphertext, each under the content hash its
\* encrypted-data metadata declare.
C14_ThumbUploadHasTwoEntries ==
  (prepared # <<>> /\ useThumb) =>
     /\ Cardinality(DOMAIN Returned.dataBag) = 2
     /\ KeyedByOwnCiphertextHash
     /\ Returned.dataBag[DeclaredImageHash] = EncryptedImage
     /\ Returned.dataBag[DeclaredThumbHash] = EncryptedThumb

\* C14 (amended): with useThumb the bag has an entry under each of the two
\* declared content hashes and no other, every entry keyed by the content hash
\* of the ciphertext it holds: two entries (image, thumbnail) when the two
\* content hashes differ, and one, the thumbnail ciphertext, when they are
\* equal, as they are when the thumbnail bytes equal the image bytes.
C14_ThumbUploadEntriesByHash ==
  (prepared # <<>> /\ useThumb) =>
     /\ DOMAIN Returned.dataBag = {DeclaredImageHash, DeclaredThumbHash}
     /\ KeyedByOwnCiphertextHash
     /\ Returned.dataBag[DeclaredThumbHash] = EncryptedThumb
     /\ DeclaredImageHash # DeclaredThumbHash =>
           Returned.dataBag[DeclaredImageHash] = EncryptedImage
     /\ thumbImageData = imageData => Cardinality(DOMAIN Returned.dataBag) = 1

\* A two-entry bag: image and thumbnail differ, and so do their content hashes.
C14_Witness ==
  /\ prepared # <<>>
  /\ useThumb
  /\ thumbImageData # imageData
  /\ Cardinality(DOMAIN Returned.dataBag) = 2
  /\ Md5(imageData) # DeclaredImageHash

\* ---- C15
\* A step of request, replyAndRequest, sendOnly or reply: the last being the
\* reply to a proxied short-link or long-link request, or to a system event.
WritingStep ==
  \/ Request
  \/ SubReplyAndRequest
  \/ SendOnly
  \/ \E i \in 1..Len(forwards) :
       TransportReturns(i) /\ forwards[i].rcase # "SOCKETREQUEST"
  \/ \E f \in InFrames :
       f.ack = 0 /\ f.payload.pcase = "SYSTEMEVENTREQUEST" /\ OnServerMessage(f)

\* C15: request, replyAndRequest, sendOnly and reply write their frame when
\* the status is OK or SERVER_COMPLETE, and in SERVER_ERROR, CLIENT_ERROR and
\* CLIENT_COMPLETE no step writes a frame.
C15_WritesExactlyInOkOrServerComplete ==
  [][/\ (WritingStep /\ _status \in {"OK", "SERVER_COMPLETE"}) => Len(wrote') = 1
     /\ _status \in {"SERVER_ERROR", "CLIENT_ERROR", "CLIENT_COMPLETE"} => wrote' = <<>>
    ]_vars

\* A reply written after the server completed the stream.
C15_Witness ==
  /\ last.op = "transport"
  /\ _status = "SERVER_COMPLETE"
  /\ Len(wrote) = 1

\* ---- C16
\* The statuses error(e) and complete() set.
ClientTerminal == {"CLIENT_ERROR", "CLIENT_COMPLETE"}

\* C16: error(e) (complete()) in status OK fails the pending requests with
\* CLIENT_ERROR (CLIENT_COMPLETE), sets the status and cancels (ends) the
\* stream; a stream error or end that follows finds the terminal status and
\* changes nothing, and no request ever carries a SERVER_* reason while the
\* status is CLIENT_ERROR or CLIENT_COMPLETE.
C16_StatusSetBeforeStreamClosed ==
  [][/\ (last'.op = "error" /\ _status = "OK") =>
          /\ AllPendingFailWith("CLIENT_ERROR")
          /\ _status' = "CLIENT_ERROR"
          /\ cancelled' = cancelled + 1
     /\ (last'.op = "complete" /\ _status = "OK") =>
          /\ AllPendingFailWith("CLIENT_COMPLETE")
          /\ _status' = "CLIENT_COMPLETE"
          /\ ended' = ended + 1
     /\ (last'.op \in {"end", "streamError"} /\ _status \in ClientTerminal) =>
          UNCHANGED <<_status, tableVars, cancelled, ended>>
     /\ _status' \in ClientTerminal =>
          \A k \in Seqs : promise'[k].reason \notin {"SERVER_ERROR", "SERVER_COMPLETE"}
    ]_vars

\* The stream error that follows the cancel of error(e), which failed a request.
C16_Witness ==
  /\ last.op = "streamError"
  /\ _status = "CLIENT_ERROR"
  /\ cancelled = 1
  /\ \E k \in Seqs : promise[k] = SubRequestCancelError("CLIENT_ERROR")

\* ---- C17
\* C17: a frame with an ack, whatever its payload, starts no forwarding, gets
\* no reply and reaches no callback; it touches the entry of its ack at most,
\* and when there is none, the table, the counter, the status and the stream
\* are unchanged.
C17_AckFrameOnlyReachesTable ==
  [][\A f \in InFrames : (f.ack # 0 /\ OnServerMessage(f)) =>
       /\ forwards' = forwards
       /\ wrote' = <<>>
       /\ last'.callback = ""
       /\ UNCHANGED <<_seqId, _status, cancelled, ended>>
       /\ \A j \in Seqs \ {f.ack} :
            /\ j \in _pendingCallbacks' <=> j \in _pendingCallbacks
            /\ promise'[j] = promise[j]
            /\ settleCalls'[j] = settleCalls[j]
       /\ f.ack \notin _pendingCallbacks => UNCHANGED tableVars
    ]_vars

\* A frame with an ack and a system-event payload resolved the only request;
\* nothing was written and no callback ran.
C17_Witness ==
  /\ last = Step("data", "")
  /\ _seqId = 1
  /\ promise[1].kind = "SubResponseWrap"
  /\ promise[1].payload.pcase = "SYSTEMEVENTREQUEST"
  /\ wrote = <<>>
  /\ forwards = <<>>

\* ---- C18
\* System-event frames without ack and with a seq.
SystemEventFrames ==
  {f \in InFrames : f.ack = 0 /\ f.seq # 0 /\ f.payload.pcase = "SYSTEMEVENTREQUEST"}

\* The empty system-event reply to inbound seq s.
SystemEventReply(s) == ActionMessage("SYSTEMEVENTRESPONSE", 0, s)

\* C18 (as claimed): for a system-event frame without ack and with seq = s,
\* exactly one frame is written, the system-event reply with ack = s and no
\* seq, and the event callback is invoked, in every status.
C18_SystemEventAlwaysAcked ==
  [][\A f \in SystemEventFrames : OnServerMessage(f) =>
       /\ wrote' = <<SystemEventReply(f.seq)>>
       /\ last'.callback = "onSystemEventCallback"
    ]_vars

\* C18 (amended): ... that reply frame is written if the status is OK or
\* SERVER_COMPLETE when the frame arrives, and no frame otherwise; the event
\* callback is invoked in every status.
C18_SystemEventAckedWhileSendable ==
  [][\A f \in SystemEventFrames : OnServerMessage(f) =>
       /\ wrote' = IF _status \in {"OK", "SERVER_COMPLETE"}
                     THEN <<SystemEventReply(f.seq)>> ELSE <<>>
       /\ last'.callback = "onSystemEventCallback"
       /\ UNCHANGED <<_status, _seqId, tableVars, cancelled, ended, forwards>>
    ]_vars

\* A system event with seq 1 acknowledged and surfaced after the server
\* completed the stream.
C18_Witness ==
  /\ last = Step("data", "onSystemEventCallback")
  /\ _status = "SERVER_COMPLETE"
  /\ wrote = <<SystemEventReply(1)>>

\* ---- C19
\* The promise of call k is settled and the table has no entry for k.
Completed(k) == k \notin _pendingCallbacks /\ promise[k].kind # "unsettled"

\* C19: when armed timers eventually fire, every correlated call, made in
\* whatever status and answered or not, is eventually settled with its entry
\* gone from the table.
C19_EveryCallCompletes ==
  \A k \in Seqs : (promise[k].kind # "none") ~> Completed(k)

\* A call refused in a terminal status whose entry its timer removed.
C19_Witness ==
  /\ last.op = "timeout"
  /\ \E k \in Seqs : promise[k].kind = "SubRequestCancelError:send" /\ Completed(k)

\* ---- C20
\* The frames the chunks fed so far hold.
Decoded == Unpacked(Concat(fed))

\* C20: once downloadFile is over and the session did not fail, it has thrown
\* DownloadFailed without decrypting if no frame was decoded, thrown
\* DownloadFailed with the code if the first frame's result code is not 0, and
\* returned the plaintext otherwise; it returns plaintext in no other case.
C20_DownloadFailsWithoutFrameOrOnCode ==
  /\ (pc # "send" /\ session # "failed") =>
        IF Decoded = <<>>
          THEN ret = NullResponseError /\ ~decrypted
        ELSE IF Decoded[1].retcode # 0
          THEN ret = RetCodeError(Decoded[1].retcode) /\ ~decrypted
        ELSE ret.kind = "plaintext" /\ decrypted
  /\ ret.kind = "plaintext" => (Decoded # <<>> /\ Decoded[1].retcode = 0)
  /\ pc = "send" => (ret = NoResult /\ ~decrypted)

\* The session closed in the middle of a frame: DownloadFailed, nothing decrypted.
C20_Witness ==
  /\ pc = "thrown"
  /\ session = "closed"
  /\ fed # <<>>
  /\ Decoded = <<>>
  /\ ret = NullResponseError

\* ---- C21
\* Inbound socket-session and long-link requests (no ack).
HandedOverFrames ==
  {f \in InFrames : f.ack = 0 /\ f.payload.pcase = "WECHATREQUEST"
                    /\ f.payload.rcase \in {"SOCKETREQUEST", "LONGLINKREQUEST"}}

\* C21: the dispatch of a socket-session or long-link request writes nothing
\* when the frame arrives and keeps the frame's seq as the ack to reply to;
\* it writes nothing when the long-link proxy is ready (sendInitData in init
\* mode) nor when the socket transport returns; and a long-link reply is
\* written only in the step in which the transport of a long-link request not
\* in init mode returns, with that request's seq as its ack.
C21_TransportOwnsSocketAndInitReplies ==
  [][/\ \A f \in HandedOverFrames : OnServerMessage(f) =>
          /\ wrote' = <<>>
          /\ Len(forwards') = Len(forwards) + 1
          /\ forwards'[Len(forwards')].ack = f.seq
          /\ forwards'[Len(forwards')].init = f.payload.init
     /\ \A i \in 1..Len(forwards) :
          /\ LongLinkProxyReady(i) => wrote' = <<>>
          /\ (TransportReturns(i) /\ forwards[i].rcase = "SOCKETREQUEST") => wrote' = <<>>
     /\ (wrote' # <<>> /\ wrote'[1].payload = "LONGLINKRESPONSE") =>
          \E i \in 1..Len(forwards) :
            /\ TransportReturns(i)
            /\ forwards[i].rcase = "LONGLINKREQUEST"
            /\ ~forwards[i].init
            /\ wrote' = <<ActionMessage("LONGLINKRESPONSE", 0, forwards[i].ack)>>
    ]_vars

\* An init-mode long-link request with seq 1 was handed to the proxy: no frame
\* was written when it arrived nor when the proxy took it.
C21_InitHandedOver ==
  /\ last.op = "proxy"
  /\ forwards = <<>>
  /\ wrote = <<>>
  /\ _status = "OK"

\* ---- C22
\* C22 (as claimed): while the status is SERVER_ERROR, CLIENT_ERROR or
\* CLIENT_COMPLETE the table is empty and no timer is armed: teardown cleared
\* it and a call refused by the send guard leaves nothing behind.
C22_NothingPendingOnceClosed ==
  _status \in {"SERVER_ERROR", "CLIENT_ERROR", "CLIENT_COMPLETE"} =>
    (_pendingCallbacks = {} /\ timers = {})

\* ---- C23
\* Replies to our own requests among the frames.
ReplyFrames == {f \in PipelineFrames : f.ack # 0}

\* The forwardings whose transport call is awaited.
Suspended == {i \in 1..Len(forwards) : forwards[i].pc = "send"}

\* C23: whatever forwardings are suspended, a frame with ack = k can be taken
\* up next and resolves the pending request k, leaving the forwardings as they
\* are; and the transport of any suspended forwarding, whatever its place in
\* the order of arrival, can return next, its reply written if the status
\* allows and the other forwardings left waiting.
C23_InboundNeverBlockedByForwarding ==
  /\ \A f \in ReplyFrames :
       (f.ack \in _pendingCallbacks /\ promise[f.ack] = Unsettled) =>
         ENABLED (/\ Deliver(f)
                  /\ promise'[f.ack] = SubResponseWrap(f.payload, f.seq)
                  /\ f.ack \notin _pendingCallbacks'
                  /\ forwards' = forwards)
  /\ \A i \in Suspended :
       ENABLED (/\ TransportReturns(i)
                /\ forwards' = Remove(forwards, i)
                /\ wrote' = IF _status \in {"OK", "SERVER_COMPLETE"}
                              THEN <<ReplyFrame(i)>> ELSE <<>>)

\* Two proxied requests, seq 1 then seq 2, are both suspended at their
\* transport after a frame was taken up, with a request of ours still pending:
\* its ack frame, and either reply, can come next.
C23_Witness ==
  /\ last.op = "data"
  /\ Len(forwards) = 2
  /\ Suspended = {1, 2}
  /\ forwards[1].ack = 1
  /\ forwards[2].ack = 2
  /\ \E k \in _pendingCallbacks : promise[k] = Unsettled

====
